---- MODULE Spec2Model ----
(***************************************************************************)
(* Model of src/src/ae/vcae.py: the convolutional variational autoencoder  *)
(* (Encoder, Decoder, VariationalAutoencoder), vae_loss and train_AE.      *)
(*                                                                         *)
(* Tensors are modelled by their shapes (a sequence of dimensions) and the *)
(* device they live on; the empty sequence <<>> is the result of a layer   *)
(* that raised.  Scalar losses are modelled as floats that may be a        *)
(* number, +inf or NaN.  Model parameters are modelled by a version number *)
(* that every optimizer step advances.                                     *)
(***************************************************************************)
EXTENDS Integers, Sequences, FiniteSets, TLC

VARIABLES
    cfg,            \* the arguments of the run (lengths, loaders, epochs, save_dir, devices)
    pc,             \* position in the script / in train_AE (line labels)
    vae,            \* the VariationalAutoencoder object
    X,              \* the batch bound by the current loop iteration
    out,            \* (x_recon, latent_mu, latent_logvar) of the last forward call
    loss,           \* the value returned by the last vae_loss call
    grad,           \* state of the parameters' .grad buffers
    ops,            \* operations performed on the current batch, in order
    epoch,          \* loop variable of `for epoch in range(num_epochs)`
    it,             \* number of batches the current loader iteration has yielded
    train_loss_avg, \* train_loss_avg[-1] and len(train_loss_avg)
    num_batches,
    val_loss_sum,
    best_val_loss,
    ckpt,           \* content of the file at save_dir
    err,            \* the exception that ended the run, if any
    runBest         \* history: lowest held-out loss seen so far and the parameters it was seen with

vars == <<cfg, pc, vae, X, out, loss, grad, ops, epoch, it, train_loss_avg,
          num_batches, val_loss_sum, best_val_loss, ckpt, err, runBest>>

-----------------------------------------------------------------------------
(* Bounds of the model *)

MaxLen == 7
MaxCap == 2
MaxLatent == 2
MaxB == 2
MaxEpochs == 2
MaxTrain == 2
MaxTest == 2
MaxLoss == 1

(* Hyper-parameters of the script entry point *)
Capacity == 32
LatentDims == 10
BatchSize == 32

Devices == {"cpu", "cuda:3"}

-----------------------------------------------------------------------------
(* Floats: loss.item(), np.inf *)

Num(n) == [k |-> "num", v |-> n]
Inf == [k |-> "inf", v |-> 0]
NaN == [k |-> "nan", v |-> 0]
Undefined == [k |-> "undef", v |-> 0]

LossValues == {Num(n) : n \in 0..MaxLoss} \cup {Inf, NaN}

\* a >= b on Python floats: false as soon as one side is NaN
Geq(a, b) ==
    /\ a.k \in {"num", "inf"}
    /\ b.k \in {"num", "inf"}
    /\ \/ a.k = "inf"
       \/ a.k = "num" /\ b.k = "num" /\ a.v >= b.v

Gt(a, b) ==
    /\ a.k \in {"num", "inf"}
    /\ b.k \in {"num", "inf"}
    /\ \/ a.k = "inf" /\ b.k = "num"
       \/ a.k = "num" /\ b.k = "num" /\ a.v > b.v

\* a + b on Python floats (no negative infinity arises: losses are >= 0 here)
Add(a, b) ==
    IF a.k = "nan" \/ b.k = "nan" THEN NaN
    ELSE IF a.k = "inf" \/ b.k = "inf" THEN Inf
    ELSE Num(a.v + b.v)

-----------------------------------------------------------------------------
(* Shapes *)

Raised == <<>>

RECURSIVE Prod(_)
Prod(s) == IF s = <<>> THEN 1 ELSE Head(s) * Prod(Tail(s))

\* nn.Conv1d(in_channels, out_channels, kernel_size, stride, padding) applied to (B, C, L)
Conv1d(s, in_channels, out_channels, kernel_size, stride, padding) ==
    IF s = Raised \/ Len(s) # 3 THEN Raised
    ELSE IF s[2] # in_channels THEN Raised
    ELSE IF s[3] + 2 * padding < kernel_size THEN Raised
    ELSE <<s[1], out_channels, ((s[3] + 2 * padding - kernel_size) \div stride) + 1>>

\* nn.ConvTranspose1d(in_channels, out_channels, kernel_size, stride, padding) applied to (B, C, L)
ConvTranspose1d(s, in_channels, out_channels, kernel_size, stride, padding) ==
    IF s = Raised \/ Len(s) # 3 THEN Raised
    ELSE IF s[2] # in_channels THEN Raised
    ELSE IF (s[3] - 1) * stride - 2 * padding + kernel_size < 1 THEN Raised
    ELSE <<s[1], out_channels, (s[3] - 1) * stride - 2 * padding + kernel_size>>

\* nn.Linear(in_features, out_features) applied to (B, F)
Linear(s, in_features, out_features) ==
    IF s = Raised \/ Len(s) # 2 THEN Raised
    ELSE IF s[2] # in_features THEN Raised
    ELSE <<s[1], out_features>>

\* x.view(x.size(0), -1)
Flatten(s) ==
    IF s = Raised THEN Raised ELSE <<s[1], Prod(Tail(s))>>

\* x.view(x.size(0), c, scalable_dim)
Unflatten(s, c, scalable_dim) ==
    IF s = Raised THEN Raised
    ELSE IF Prod(s) # s[1] * c * scalable_dim THEN Raised
    ELSE <<s[1], c, scalable_dim>>

-----------------------------------------------------------------------------
(* Encoder *)

EncoderConv1(s, c) == Conv1d(s, 1, c, 4, 2, 1)
EncoderConv2(s, c) == Conv1d(s, c, c * 2, 4, 2, 1)

\* the flattened feature map of Encoder.forward (lines 22-24)
EncoderFeatures(s, c) == Flatten(EncoderConv2(EncoderConv1(s, c), c))

\* in_features of fc_mu and fc_logvar (lines 18-19)
EncoderInFeatures(c, scalable_dim) == c * scalable_dim

\* Encoder.forward: <<x_mu, x_logvar>>
EncoderForward(s, c, latent_dims, scalable_dim) ==
    LET x == EncoderFeatures(s, c)
    IN  <<Linear(x, EncoderInFeatures(c, scalable_dim), latent_dims),
          Linear(x, EncoderInFeatures(c, scalable_dim), latent_dims)>>

(* Decoder *)

DecoderForward(z, c, latent_dims, scalable_dim) ==
    LET x1 == Linear(z, latent_dims, c * scalable_dim)
        x2 == Unflatten(x1, c, scalable_dim)
        x3 == ConvTranspose1d(x2, c, c, 4, 1, 1)
    IN  ConvTranspose1d(x3, c, 1, 3, 2, 1)

-----------------------------------------------------------------------------
(* VariationalAutoencoder *)

NoVae == [built |-> FALSE, batch_size |-> 0, latent_dims |-> 0, scalable_dim |-> 0,
          training |-> FALSE, device |-> "cpu", params |-> 0]

\* the probe of __init__ (line 57): Encoder(batch_size, 1, 1).conv1(test_data)
Probe(batch_size, test_shape) == EncoderConv1(test_shape, batch_size)

\* VariationalAutoencoder.__init__ followed by .to(device); a new module is in training mode
NewVae(batch_size, latent_dims, test_shape, device) ==
    [built |-> TRUE, batch_size |-> batch_size, latent_dims |-> latent_dims,
     scalable_dim |-> Probe(batch_size, test_shape)[3],
     training |-> TRUE, device |-> device, params |-> 0]

\* latent_sample: which value it returns
LatentSample(m) == IF m.training THEN "sample" ELSE "mu"

NoOut == [recon |-> Raised, mu |-> Raised, logvar |-> Raised, latent |-> "none"]

\* VariationalAutoencoder.forward on a batch b = [shape, dev]
VaeForward(m, b) ==
    IF b.dev # m.device THEN NoOut
    ELSE
      LET e == EncoderForward(b.shape, m.batch_size, m.latent_dims, m.scalable_dim)
      IN  IF e[1] = Raised \/ e[2] = Raised THEN NoOut
          ELSE [recon |-> DecoderForward(e[1], m.batch_size, m.latent_dims, m.scalable_dim),
                mu |-> e[1], logvar |-> e[2], latent |-> LatentSample(m)]

ForwardRaises(m, b) == VaeForward(m, b).recon = Raised

-----------------------------------------------------------------------------
(* vae_loss *)

\* (variant) an assertion that compares the batch dimension only
VaeLossRaisesBatchOnly(recon_x, x) == x[1] # recon_x[1]

\* the assertion of line 91
VaeLossRaises(recon_x, x) == Prod(x) # Prod(recon_x)


-----------------------------------------------------------------------------
(* State of the script before the model is constructed *)

NoBatch == [shape |-> Raised, dev |-> "none"]
NoCkpt == [saved |-> FALSE, params |-> 0]

Start(c) ==
    /\ cfg = c
    /\ pc = "construct"
    /\ vae = NoVae
    /\ X = NoBatch
    /\ out = NoOut
    /\ loss = Undefined
    /\ grad = "none"
    /\ ops = <<>>
    /\ epoch = 0
    /\ it = 0
    /\ train_loss_avg = [len |-> 0, last |-> Undefined, div |-> 1]
    /\ num_batches = 0
    /\ val_loss_sum = <<>>
    /\ best_val_loss = Undefined
    /\ ckpt = NoCkpt
    /\ err = "none"
    /\ runBest = [loss |-> Undefined, params |-> {}]

\* the run of the script: the hyper-parameters of lines 160 and 167, any data and
\* any arguments of train_AE; the loaders yield tensors in host memory
Init ==
    \E L \in 1..MaxLen, testLen \in 1..MaxLen, num_epochs \in 0..MaxEpochs,
       nTrain \in 0..MaxTrain, nTest \in 0..MaxTest, save_dir \in BOOLEAN,
       device \in Devices, loaderDevice \in {"cpu"} :
        Start([L |-> L, testLen |-> testLen, c |-> Capacity, D |-> LatentDims,
               B |-> BatchSize, num_epochs |-> num_epochs, nTrain |-> nTrain,
               nTest |-> nTest, save_dir |-> save_dir, device |-> device,
               loaderDevice |-> loaderDevice])

Abort(e) ==
    /\ pc' = "aborted"
    /\ err' = e

\* lines 165-168: vae = VariationalAutoencoder(batch_size, latent_dims, test_data).to(device)
Construct(next) ==
    /\ pc = "construct"
    /\ IF Probe(cfg.c, <<cfg.B, 1, cfg.L>>) = Raised
       THEN /\ Abort("RuntimeError")
            /\ UNCHANGED vae
       ELSE /\ vae' = NewVae(cfg.c, cfg.D, <<cfg.B, 1, cfg.L>>, cfg.device)
            /\ pc' = next
            /\ UNCHANGED err
    /\ UNCHANGED <<cfg, X, out, loss, grad, ops, epoch, it, train_loss_avg,
                   num_batches, val_loss_sum, best_val_loss, ckpt, runBest>>

-----------------------------------------------------------------------------
(* train_AE *)

\* lines 105-107: vae.train(); train_loss_avg = []
Enter ==
    /\ pc = "l105"
    /\ vae' = [vae EXCEPT !.training = TRUE]
    /\ train_loss_avg' = [len |-> 0, last |-> Undefined, div |-> 1]
    /\ epoch' = 0
    /\ pc' = "l110"
    /\ UNCHANGED <<cfg, X, out, loss, grad, ops, it, num_batches, val_loss_sum,
                   best_val_loss, ckpt, err, runBest>>

\* lines 110-112: for epoch in range(num_epochs): train_loss_avg.append(0); num_batches = 0
EpochHead ==
    /\ pc = "l110"
    /\ IF epoch < cfg.num_epochs
       THEN /\ train_loss_avg' = [len |-> train_loss_avg.len + 1, last |-> Num(0), div |-> 1]
            /\ num_batches' = 0
            /\ it' = 0
            /\ pc' = "l114"
       ELSE /\ pc' = "done"
            /\ UNCHANGED <<train_loss_avg, num_batches, it>>
    /\ UNCHANGED <<cfg, vae, X, out, loss, grad, ops, epoch, val_loss_sum,
                   best_val_loss, ckpt, err, runBest>>

\* lines 114-115: for X, _ in loader_train: X = X.to(device)
TrainFetch ==
    /\ pc = "l114"
    /\ IF it < cfg.nTrain
       THEN /\ X' = [shape |-> <<cfg.B, 1, cfg.L>>, dev |-> cfg.device]
            /\ it' = it + 1
            /\ ops' = <<>>
            /\ pc' = "l118"
       ELSE /\ pc' = "l127"
            /\ UNCHANGED <<X, it, ops>>
    /\ UNCHANGED <<cfg, vae, out, loss, grad, epoch, train_loss_avg, num_batches,
                   val_loss_sum, best_val_loss, ckpt, err, runBest>>

\* lines 118 and 131: Z, latent_mu, latent_logvar = vae(X)
Forward(at, next) ==
    /\ pc = at
    /\ IF ForwardRaises(vae, X)
       THEN /\ Abort("RuntimeError")
            /\ UNCHANGED <<out, ops>>
       ELSE /\ out' = VaeForward(vae, X)
            /\ ops' = Append(ops, "forward")
            /\ pc' = next
            /\ UNCHANGED err
    /\ UNCHANGED <<cfg, vae, X, loss, grad, epoch, it, train_loss_avg, num_batches,
                   val_loss_sum, best_val_loss, ckpt, runBest>>

\* lines 119 and 132: loss = vae_loss(Z, X, latent_mu, latent_logvar)
Loss(at, next) ==
    /\ pc = at
    /\ IF VaeLossRaises(out.recon, X.shape)
       THEN /\ Abort("AssertionError")
            /\ UNCHANGED <<loss, ops>>
       ELSE /\ \E l \in LossValues : loss' = l
            /\ ops' = Append(ops, "loss")
            /\ pc' = next
            /\ UNCHANGED err
    /\ UNCHANGED <<cfg, vae, X, out, grad, epoch, it, train_loss_avg, num_batches,
                   val_loss_sum, best_val_loss, ckpt, runBest>>

\* line 120: optimizer.zero_grad()
ZeroGrad ==
    /\ pc = "l120"
    /\ grad' = "zero"
    /\ ops' = Append(ops, "zero_grad")
    /\ pc' = "l121"
    /\ UNCHANGED <<cfg, vae, X, out, loss, epoch, it, train_loss_avg, num_batches,
                   val_loss_sum, best_val_loss, ckpt, err, runBest>>

\* line 121: loss.backward()
Backward ==
    /\ pc = "l121"
    /\ grad' = "loss"
    /\ ops' = Append(ops, "backward")
    /\ pc' = "l122"
    /\ UNCHANGED <<cfg, vae, X, out, loss, epoch, it, train_loss_avg, num_batches,
                   val_loss_sum, best_val_loss, ckpt, err, runBest>>

\* line 122: optimizer.step()
Step ==
    /\ pc = "l122"
    /\ vae' = [vae EXCEPT !.params = @ + 1]
    /\ ops' = Append(ops, "step")
    /\ pc' = "l124"
    /\ UNCHANGED <<cfg, X, out, loss, grad, epoch, it, train_loss_avg, num_batches,
                   val_loss_sum, best_val_loss, ckpt, err, runBest>>

\* lines 124-125: train_loss_avg[-1] += loss.item(); num_batches += 1
Accumulate ==
    /\ pc = "l124"
    /\ train_loss_avg' = [train_loss_avg EXCEPT !.last = Add(@, loss)]
    /\ num_batches' = num_batches + 1
    /\ pc' = "l114"
    /\ UNCHANGED <<cfg, vae, X, out, loss, grad, ops, epoch, it, val_loss_sum,
                   best_val_loss, ckpt, err, runBest>>

\* lines 127-129: vae.eval(); val_loss_sum = list(); best_val_loss = np.inf
EvalHead ==
    /\ pc = "l127"
    /\ vae' = [vae EXCEPT !.training = FALSE]
    /\ val_loss_sum' = <<>>
    /\ best_val_loss' = Inf
    /\ it' = 0
    /\ pc' = "l130"
    /\ UNCHANGED <<cfg, X, out, loss, grad, ops, epoch, train_loss_avg, num_batches,
                   ckpt, err, runBest>>

\* line 130: for X, _ in loader_test
EvalFetch ==
    /\ pc = "l130"
    /\ IF it < cfg.nTest
       THEN /\ X' = [shape |-> <<cfg.B, 1, cfg.testLen>>, dev |-> cfg.loaderDevice]
            /\ it' = it + 1
            /\ ops' = <<>>
            /\ pc' = "l131"
       ELSE /\ pc' = "l138"
            /\ UNCHANGED <<X, it, ops>>
    /\ UNCHANGED <<cfg, vae, out, loss, grad, epoch, train_loss_avg, num_batches,
                   val_loss_sum, best_val_loss, ckpt, err, runBest>>

\* (variant) a strict comparison
ShouldSaveStrict(best, l, save_dir) == Gt(best, l) /\ save_dir

\* line 134: best_val_loss >= loss.item() and save_dir
ShouldSave(best, l, save_dir) == Geq(best, l) /\ save_dir

\* history of the held-out losses: the lowest one and the parameters it was observed with
Observe(h, l, params) ==
    IF l.k = "nan" THEN h
    ELSE IF h.loss.k = "undef" \/ Gt(h.loss, l) THEN [loss |-> l, params |-> {params}]
    ELSE IF h.loss = l THEN [h EXCEPT !.params = @ \cup {params}]
    ELSE h

\* (variant) a held-out batch that also takes an optimizer step
EvalRecordStepping ==
    /\ pc = "l133"
    /\ val_loss_sum' = Append(val_loss_sum, loss)
    /\ runBest' = Observe(runBest, loss, vae.params)
    /\ vae' = [vae EXCEPT !.params = @ + 1]
    /\ IF ShouldSave(best_val_loss, loss, cfg.save_dir)
       THEN /\ best_val_loss' = loss
            /\ ckpt' = [saved |-> TRUE, params |-> vae.params]
       ELSE UNCHANGED <<best_val_loss, ckpt>>
    /\ pc' = "l130"
    /\ UNCHANGED <<cfg, X, out, loss, grad, ops, epoch, it, train_loss_avg,
                   num_batches, err>>

\* lines 133-136: record the loss; save the parameters when it is the best of this pass
EvalRecord ==
    /\ pc = "l133"
    /\ val_loss_sum' = Append(val_loss_sum, loss)
    /\ runBest' = Observe(runBest, loss, vae.params)
    /\ IF ShouldSave(best_val_loss, loss, cfg.save_dir)
       THEN /\ best_val_loss' = loss
            /\ ckpt' = [saved |-> TRUE, params |-> vae.params]
       ELSE UNCHANGED <<best_val_loss, ckpt>>
    /\ pc' = "l130"
    /\ UNCHANGED <<cfg, vae, X, out, loss, grad, ops, epoch, it, train_loss_avg,
                   num_batches, err>>

\* lines 138-139: train_loss_avg[-1] /= num_batches; print(...); next epoch
EpochEnd ==
    /\ pc = "l138"
    /\ IF num_batches = 0
       THEN /\ Abort("ZeroDivisionError")
            /\ UNCHANGED <<train_loss_avg, epoch>>
       ELSE /\ train_loss_avg' = [train_loss_avg EXCEPT !.div = num_batches]
            /\ epoch' = epoch + 1
            /\ pc' = "l110"
            /\ UNCHANGED err
    /\ UNCHANGED <<cfg, vae, X, out, loss, grad, ops, it, num_batches, val_loss_sum,
                   best_val_loss, ckpt, runBest>>

Next ==
    \/ Construct("l105")
    \/ Enter
    \/ EpochHead
    \/ TrainFetch
    \/ Forward("l118", "l119")
    \/ Loss("l119", "l120")
    \/ ZeroGrad
    \/ Backward
    \/ Step
    \/ Accumulate
    \/ EvalHead
    \/ EvalFetch
    \/ Forward("l131", "l132")
    \/ Loss("l132", "l133")
    \/ EvalRecord
    \/ EpochEnd

Spec == Init /\ [][Next]_vars


-----------------------------------------------------------------------------
(* A single call of the model: construct, choose the mode, forward, loss *)

InitForward ==
    \E L \in 1..MaxLen, c \in 1..MaxCap, D \in 1..MaxLatent, B \in 1..MaxB :
        Start([L |-> L, testLen |-> L, c |-> c, D |-> D, B |-> B, num_epochs |-> 0,
               nTrain |-> 0, nTest |-> 0, save_dir |-> FALSE, device |-> "cpu",
               loaderDevice |-> "cpu"])

\* vae.train() / vae.eval()
SetMode ==
    /\ pc = "ready"
    /\ vae' = [vae EXCEPT !.training = ~@]
    /\ UNCHANGED <<cfg, pc, X, out, loss, grad, ops, epoch, it, train_loss_avg,
                   num_batches, val_loss_sum, best_val_loss, ckpt, err, runBest>>

\* a caller hands a batch of some length to the model
Feed ==
    /\ pc = "ready"
    /\ \E len \in 1..MaxLen : X' = [shape |-> <<cfg.B, 1, len>>, dev |-> vae.device]
    /\ ops' = <<>>
    /\ pc' = "fwd"
    /\ UNCHANGED <<cfg, vae, out, loss, grad, epoch, it, train_loss_avg,
                   num_batches, val_loss_sum, best_val_loss, ckpt, err, runBest>>

NextForward ==
    \/ Construct("ready")
    \/ SetMode
    \/ Feed
    \/ Forward("fwd", "loss")
    \/ Loss("loss", "returned")

SpecForward == InitForward /\ [][NextForward]_vars


-----------------------------------------------------------------------------
(* Properties *)

TrainPcs == {"l118", "l119", "l120", "l121", "l122", "l124"}
EvalPcs == {"l127", "l130", "l131", "l132", "l133", "l138"}
TrainOrder == <<"forward", "loss", "zero_grad", "backward", "step">>
EvalOrder == <<"forward", "loss">>

IsPrefix(p, q) == Len(p) <= Len(q) /\ p = SubSeq(q, 1, Len(p))

\* the batch handed to the model has the length the model was constructed for
SameLength == X # NoBatch /\ X.shape = <<cfg.B, 1, cfg.L>>

\* C1: whenever forward returns for an input of shape (B,1,L) on a model probed with
\* length L, the reconstruction has shape (B,1,L).
C1_ReconShape ==
    (pc = "loss" /\ SameLength) => out.recon = <<cfg.B, 1, cfg.L>>

\* C2: every training batch is forwarded in training mode (latent_sample draws a
\* sample) and every held-out batch in evaluation mode (latent_sample returns mu).
C2_ModePerPass ==
    /\ pc = "l119" => out.latent = "sample"
    /\ pc = "l132" => out.latent = "mu"

\* C3: when train_AE finishes with a checkpoint destination, the checkpoint holds
\* the parameters the model had when the lowest held-out loss of the run was seen.
C3_CheckpointIsRunBest ==
    (pc = "done" /\ cfg.save_dir /\ ckpt.saved) => ckpt.params \in runBest.params

\* C4: vae_loss returns only when recon_x and x have the same number of elements;
\* on a mismatch the run aborts with the assertion's error at that batch, leaving
\* loss, gradients, parameters and checkpoint untouched, and nothing runs afterwards.
C4_LossReturned ==
    pc \in {"l120", "l121", "l122", "l124", "l133"} => Prod(out.recon) = Prod(X.shape)

C4_MismatchAborts ==
    (pc \in {"l119", "l132"} /\ Prod(out.recon) # Prod(X.shape)) =>
        /\ pc' = "aborted"
        /\ err' = "AssertionError"
        /\ UNCHANGED <<loss, grad, vae, ckpt, best_val_loss, val_loss_sum, it, epoch,
                       num_batches, train_loss_avg>>

C4_AbortIsFinal == pc = "aborted" => UNCHANGED vars

\* C4: a vae_loss call with mismatched element counts raises before computing
\* anything and ends the run at that batch.
C4_ShapeMismatchAborts ==
    [][C4_LossReturned' /\ C4_MismatchAborts /\ C4_AbortIsFinal]_vars

C4_Witness ==
    /\ pc = "aborted"
    /\ err = "AssertionError"
    /\ ops = <<"forward">>
    /\ vae.params = 0
    /\ grad = "none"

\* C5: a constructed model has a decoder whose output length equals the input
\* length it was constructed for (construction fails otherwise).
C5_ConstructionValidates ==
    vae.built =>
        DecoderForward(<<cfg.B, vae.latent_dims>>, vae.batch_size, vae.latent_dims,
                       vae.scalable_dim)[3] = cfg.L

\* C6: the best-validation-loss tracker never increases during a run.
C6_BestMonotone ==
    [][best_val_loss.k # "undef" => Geq(best_val_loss, best_val_loss')]_vars

\* C7: at every forward call of train_AE the batch is on the model's device.
C7_SameDevice ==
    pc \in {"l118", "l131"} => X.dev = vae.device

\* C8: whenever the two convolutions of the Encoder accept an input of the length the
\* model was constructed for, the width of the flattened feature map equals the
\* in_features of fc_mu and fc_logvar, and forward returns mu and logvar of shape (B, D).
C8_EncoderWidth ==
    (pc \in {"loss", "aborted"} /\ SameLength
        /\ EncoderFeatures(X.shape, vae.batch_size) # Raised) =>
        /\ EncoderFeatures(X.shape, vae.batch_size)[2]
              = EncoderInFeatures(vae.batch_size, vae.scalable_dim)
        /\ out.mu = <<cfg.B, cfg.D>>
        /\ out.logvar = <<cfg.B, cfg.D>>

\* C9: batches are processed one after the other: the operations of a batch happen
\* in the order forward, loss, zero_grad, backward, step (forward, loss for a
\* held-out batch); the evaluation pass of an epoch starts only when every training
\* batch of the epoch has had its optimizer step; parameters change only by the
\* optimizer step of a training batch; the next epoch starts only when every
\* held-out batch has been evaluated.
C9_Order ==
    /\ pc \in TrainPcs => IsPrefix(ops, TrainOrder)
    /\ pc \in {"l131", "l132", "l133"} => IsPrefix(ops, EvalOrder)
    /\ pc = "l124" => ops = TrainOrder
    /\ pc = "l133" => ops = EvalOrder
    /\ pc \in EvalPcs =>
          /\ num_batches = cfg.nTrain
          /\ vae.params = (epoch + 1) * cfg.nTrain
    /\ pc \in TrainPcs => vae.params \in {epoch * cfg.nTrain + num_batches,
                                          epoch * cfg.nTrain + num_batches + 1}

C9_Steps ==
    /\ vae'.params # vae.params =>
          /\ pc = "l122"
          /\ ops = SubSeq(TrainOrder, 1, 4)
          /\ vae'.params = vae.params + 1
    /\ pc' = "l118" => pc = "l114" /\ ops \in {<<>>, TrainOrder, EvalOrder}
    /\ pc' = "l131" => pc = "l130" /\ ops \in {<<>>, TrainOrder, EvalOrder}
    /\ epoch' # epoch =>
          /\ pc = "l138"
          /\ Len(val_loss_sum) = cfg.nTest
          /\ epoch' = epoch + 1

\* C9: training batches, then held-out batches, then the next epoch, each batch
\* completed in order before the next one starts.
C9_Sequential == [][C9_Order' /\ C9_Steps]_vars

C9_Witness ==
    /\ pc = "done"
    /\ epoch >= 2
    /\ cfg.nTrain >= 2
    /\ cfg.nTest >= 2

\* C10: with a destination, the first held-out batch of an epoch whose loss is not
\* NaN writes the checkpoint, and once an evaluation pass that saw such a batch is
\* over the checkpoint holds the model's current parameters; without a destination
\* no checkpoint is written and the tracker stays at infinity.
AllNaN(q) == \A i \in 1..Len(q) : q[i] = NaN

C10_FirstBatchSaves ==
    (pc = "l133" /\ cfg.save_dir /\ loss # NaN /\ AllNaN(val_loss_sum)) =>
        /\ ckpt' = [saved |-> TRUE, params |-> vae.params]
        /\ best_val_loss' = loss

C10_State ==
    /\ (pc \in {"l138", "l110", "done"} /\ cfg.save_dir /\ ~AllNaN(val_loss_sum)) =>
          ckpt = [saved |-> TRUE, params |-> vae.params]
    /\ ~cfg.save_dir =>
          /\ ckpt = NoCkpt
          /\ best_val_loss \in {Undefined, Inf}

\* C10: every epoch's first held-out batch with a non-NaN loss writes the
\* checkpoint; without a destination nothing is written.
C10_CheckpointEveryEpoch == [][C10_State' /\ C10_FirstBatchSaves]_vars

C10_Witness ==
    /\ pc = "l110"
    /\ epoch >= 2
    /\ cfg.save_dir
    /\ Len(val_loss_sum) >= 2
    /\ val_loss_sum[1] = NaN
    /\ val_loss_sum[2] = Inf
    /\ ckpt = [saved |-> TRUE, params |-> vae.params]

====
